---- MODULE Spec2Model ----
(***************************************************************************)
(* Rotation control core of the scoreboard: class Data of data/data.py.    *)
(* One Data object is modelled.  Its attributes are the variables, every   *)
(* public method is one action, and every upstream call (schedule, game    *)
(* detail, standings) answers with a response drawn from a small set or    *)
(* fails.  Python list positions are 0-based; a TLA+ sequence is 1-based,  *)
(* so games[i] of the source is games[i + 1] here.                         *)
(***************************************************************************)
EXTENDS Integers, Sequences, FiniteSets, TLC

VARIABLES
    self,               \* the Data object: a record of its attributes
                        \*   config, games, current_game_index, current_division_index,
                        \*   network_issues, needs_refresh, game_data, standings,
                        \*   and layout_state, the state held by config.layout
    last,               \* history: the last operation, its upstream calls, what it raised
    ret,                \* history: <<value>> returned by the last operation, <<>> if none
    last_call,          \* history: TRUE iff the most recent upstream call succeeded
    fetched_standings   \* history: the Standings of the last successful standings fetch

vars == <<self, last, ret, last_call, fetched_standings>>

----------------------------------------------------------------------------
(* Bounds of the model *)

\* longest catalog the upstream schedule call returns (Spec)
MaxGames == 3

\* longest catalog the upstream schedule call returns (SpecAll)
MaxGamesAll == 1

\* longest catalog the queries are applied to (SpecPure)
MaxGamesPure == 3

\* number of distinct standings tables the upstream can return
MaxStandings == 2
\* the clock: instants are whole ticks, TicksPerDay of them to a calendar day,
\* days 0..MaxDay; two consecutive clock reads are at most MaxDrift ticks apart
TicksPerDay == 4
MaxDay == 2
MaxDrift == 1

----------------------------------------------------------------------------
(* Collaborators of the core: data.teams, data.status, data.layout,        *)
(* data.standings, statsapi                                                *)

\* data.teams.TEAM_FULL: short team identifier -> the provider's full name
TEAM_FULL ==
    [t \in {"Yankees", "Cubs"} |->
        IF t = "Yankees" THEN "New York Yankees" ELSE "Chicago Cubs"]

\* Status.is_live: table lookup on the status string
is_live(status) == status \in {"In Progress"}

\* Status.is_fresh: table lookup on the status string
is_fresh(status) == status \in {"Scheduled", "Pre-Game"}

\* Status.WARMUP
WARMUP == "Warmup"

\* Status.is_inning_break: the half-innings in play are Top and Bottom
is_inning_break(inning_state) == inning_state \notin {"Top", "Bottom"}

\* layout.LAYOUT_STATE_*; set_state() without argument selects the normal layout
LAYOUT_STATE_NORMAL == "normal"
LAYOUT_STATE_WARMUP == "warmup"
LAYOUT_STATE_NOHIT == "nohit"
LAYOUT_STATE_PERFECT == "perfect"

\* the attribute self.game_data before its first assignment
UnsetDetail ==
    [id |-> 0, detailedState |-> "<unset>", inningState |-> "<unset>",
     noHitter |-> FALSE, perfectGame |-> FALSE]

\* Python's None as the value of fetch_preferred_team_game_data
NoneDetail ==
    [id |-> 0, detailedState |-> "<None>", inningState |-> "<None>",
     noHitter |-> FALSE, perfectGame |-> FALSE]

\* the attribute self.standings before its first assignment
UnsetStandings == [version |-> 0, divisions |-> <<>>]

\* the records statsapi.schedule returns, without their position-dependent game_id
GameShapes ==
    { [away_name |-> "New York Yankees", home_name |-> "Boston Red Sox", status |-> "Scheduled"],
      [away_name |-> "Baltimore Orioles", home_name |-> "New York Yankees", status |-> "In Progress"],
      [away_name |-> "New York Mets", home_name |-> "Chicago Cubs", status |-> "In Progress"] }

\* the k-th game of a schedule answer
Game(k, shape) ==
    [game_id |-> 100 + k, away_name |-> shape.away_name, home_name |-> shape.home_name,
     status |-> shape.status]

\* sequences of at most max games with distinct ids
Days(shapes, max) ==
    UNION { { [k \in 1..n |-> Game(k, f[k])] : f \in [1..n -> shapes] } : n \in 0..max }

\* the answers of statsapi.schedule: at most max games, and no team with more
\* than a doubleheader on one day
Catalogs(max) ==
    LET plays(g, team) == team \in {g.away_name, g.home_name}
        day(c) == \A team \in {"New York Yankees", "Chicago Cubs"} :
                      Cardinality({ k \in 1..Len(c) : plays(c[k], team) }) <= 2
    IN  { c \in Days(GameShapes, max) : day(c) }

\* the status part of the answers of statsapi.get("game", ...)
DetailShapes ==
    { [detailedState |-> "In Progress", inningState |-> "Top", noHitter |-> FALSE, perfectGame |-> FALSE],
      [detailedState |-> "In Progress", inningState |-> "Middle", noHitter |-> TRUE, perfectGame |-> FALSE],
      [detailedState |-> "Warmup", inningState |-> "Top", noHitter |-> FALSE, perfectGame |-> FALSE] }

\* the record statsapi.get("game", {"gamePk": game_id}) answers with
Detail(game_id, shape) ==
    [id |-> game_id, detailedState |-> shape.detailedState, inningState |-> shape.inningState,
     noHitter |-> shape.noHitter, perfectGame |-> shape.perfectGame]

\* an upstream detail call: it fails, or it answers with one of the shapes
NoShape ==
    [detailedState |-> "<none>", inningState |-> "<none>", noHitter |-> FALSE, perfectGame |-> FALSE]
FailResp == [ok |-> FALSE, shape |-> NoShape]
Responses == {FailResp} \cup { [ok |-> TRUE, shape |-> s] : s \in DetailShapes }

\* config.preferred_divisions
PreferredDivisions == <<"AL East", "NL Central">>

\* Standings(date): the divisions of the day, every division of the league present
StandingsOf(v) ==
    [version |-> v,
     divisions |-> << [name |-> "NL Central", rows |-> v * 10 + 1],
                      [name |-> "AL East", rows |-> v * 10 + 2],
                      [name |-> "AL West", rows |-> v * 10 + 3] >>]

\* the configurations the object is constructed with
Configs ==
    [ preferred_teams : { <<"Yankees">> },
      preferred_divisions : { PreferredDivisions },
      rotation_enabled : BOOLEAN,
      rotation_only_preferred : BOOLEAN,
      rotation_preferred_team_live_mid_inning : BOOLEAN ]

----------------------------------------------------------------------------
(* Methods of Data.  A method takes the object s (a record of its           *)
(* attributes) and the upstream responses it may consume, and yields        *)
(*   s    the object when the method returns or raises,                     *)
(*   exc  "none", or the exception that reaches the caller,                 *)
(*   val  <<value>> returned (<<>> when it raised or returns nothing),      *)
(*   up   the upstream calls made, in order: [call, ok].                    *)

Call(name, ok) == [call |-> name, ok |-> ok]

Normal(s, val, up) == [s |-> s, exc |-> "none", val |-> val, up |-> up]
Raise(s, exc, up) == [s |-> s, exc |-> exc, val |-> <<>>, up |-> up]

\* a slip in __filter_list_of_games: only the home side is compared
filter_list_of_games_home_only(all_games, filter_teams) ==
    LET teams == { TEAM_FULL[filter_teams[i]] : i \in 1..Len(filter_teams) }
    IN  SelectSeq(all_games, LAMBDA game : {game.home_name} \cap teams # {})

\* Data.__filter_list_of_games
filter_list_of_games(all_games, filter_teams) ==
    LET teams == { TEAM_FULL[filter_teams[i]] : i \in 1..Len(filter_teams) }
    IN  SelectSeq(all_games, LAMBDA game : {game.away_name, game.home_name} \cap teams # {})

\* a slip in __game_index_for: the first game of the team, live or not
game_index_for_first_match(s, team_name) ==
    LET full == TEAM_FULL[team_name]
        positions == [k \in 1..Len(s.games) |-> k - 1]
        team_idxs == SelectSeq(positions, LAMBDA i :
                        full \in {s.games[i + 1].away_name, s.games[i + 1].home_name})
    IN  IF Len(team_idxs) > 0 THEN team_idxs[1] ELSE s.current_game_index

\* Data.__game_index_for
game_index_for(s, team_name) ==
    LET full == TEAM_FULL[team_name]
        positions == [k \in 1..Len(s.games) |-> k - 1]
        team_idxs == SelectSeq(positions, LAMBDA i :
                        full \in {s.games[i + 1].away_name, s.games[i + 1].home_name})
        live_idxs == SelectSeq(team_idxs, LAMBDA i : is_live(s.games[i + 1].status))
    IN  IF Len(team_idxs) > 0
        THEN IF Len(live_idxs) > 0 THEN Head(live_idxs) ELSE team_idxs[1]
        ELSE s.current_game_index

\* Data.game_index_for_preferred_team
game_index_for_preferred_team(s) ==
    IF Len(s.config.preferred_teams) > 0
    THEN game_index_for(s, s.config.preferred_teams[1])
    ELSE s.current_game_index

\* a slip in __next_game_index: the wraparound comes one step early
next_game_index_early_wrap(s) ==
    LET counter == s.current_game_index + 1
    IN  IF counter >= Len(s.games) - 1 THEN 0 ELSE counter

\* a slip in __next_game_index: > for >=, the wraparound comes one step late
next_game_index_late_wrap(s) ==
    LET counter == s.current_game_index + 1
    IN  IF counter > Len(s.games) THEN 0 ELSE counter

\* Data.__next_game_index
next_game_index(s) ==
    LET counter == s.current_game_index + 1
    IN  IF counter >= Len(s.games) THEN 0 ELSE counter

\* Data.__next_division_index
next_division_index(s) ==
    LET counter == s.current_division_index + 1
    IN  IF counter >= Len(s.config.preferred_divisions) THEN 0 ELSE counter

\* a slip in is_offday_for_preferred_team: every preferred team is looked for,
\* not the first one only
is_offday_for_any_preferred_team(s) ==
    IF Len(s.config.preferred_teams) > 0
    THEN ~ \E k \in 1..Len(s.games), i \in 1..Len(s.config.preferred_teams) :
             TEAM_FULL[s.config.preferred_teams[i]] \in {s.games[k].away_name, s.games[k].home_name}
    ELSE TRUE

\* Data.is_offday_for_preferred_team
is_offday_for_preferred_team(s) ==
    IF Len(s.config.preferred_teams) > 0
    THEN ~ \E k \in 1..Len(s.games) :
             TEAM_FULL[s.config.preferred_teams[1]] \in {s.games[k].away_name, s.games[k].home_name}
    ELSE TRUE

\* Data.is_offday
is_offday(s) == ~ (Len(s.games) > 0)

\* Data.games_live
games_live(s) ==
    \E k \in 1..Len(s.games) :
        is_fresh(s.games[k].status) \/ (is_live(s.games[k].status) \/ s.games[k].status = WARMUP)

\* Data.current_game: self.games[self.current_game_index], IndexError past the end
current_game(s, up) ==
    IF s.current_game_index < Len(s.games)
    THEN Normal(s, <<s.games[s.current_game_index + 1]>>, up)
    ELSE Raise(s, "IndexError", up)

\* a slip in __update_layout_state: the perfect game is looked at before the
\* no-hitter, so that the no-hitter overrides it
update_layout_state_nohit_last(s) ==
    LET st0 == LAYOUT_STATE_NORMAL
        st1 == IF s.game_data.detailedState = WARMUP THEN LAYOUT_STATE_WARMUP ELSE st0
        st2 == IF s.game_data.perfectGame THEN LAYOUT_STATE_PERFECT ELSE st1
        st3 == IF s.game_data.noHitter THEN LAYOUT_STATE_NOHIT ELSE st2
    IN  [s EXCEPT !.layout_state = st3]

\* Data.__update_layout_state
update_layout_state(s) ==
    LET st0 == LAYOUT_STATE_NORMAL
        st1 == IF s.game_data.detailedState = WARMUP THEN LAYOUT_STATE_WARMUP ELSE st0
        st2 == IF s.game_data.noHitter THEN LAYOUT_STATE_NOHIT ELSE st1
        st3 == IF s.game_data.perfectGame THEN LAYOUT_STATE_PERFECT ELSE st2
    IN  [s EXCEPT !.layout_state = st3]

\* a slip in __get_games: a failed schedule call keeps the previous catalog
get_games_keeps_stale(s, resp) ==
    IF ~ resp.ok
    THEN Normal([s EXCEPT !.network_issues = TRUE], s.games, <<Call("schedule", FALSE)>>)
    ELSE Normal([s EXCEPT !.network_issues = FALSE],
                IF s.config.rotation_only_preferred
                THEN filter_list_of_games(resp.games, s.config.preferred_teams)
                ELSE resp.games,
                <<Call("schedule", TRUE)>>)

\* Data.__get_games; resp is the answer of statsapi.schedule
get_games(s, resp) ==
    IF ~ resp.ok
    THEN Normal([s EXCEPT !.network_issues = TRUE], <<>>, <<Call("schedule", FALSE)>>)
    ELSE Normal([s EXCEPT !.network_issues = FALSE],
                IF s.config.rotation_only_preferred
                THEN filter_list_of_games(resp.games, s.config.preferred_teams)
                ELSE resp.games,
                <<Call("schedule", TRUE)>>)

\* Data.refresh_games (val of get_games is the list itself)
refresh_games(s, resp) ==
    LET g == get_games(s, resp)
    IN  Normal([g.s EXCEPT !.games = g.val], <<>>, g.up)

\* a slip in refresh_standings: a failed fetch blanks the standings
refresh_standings_blanks(s, resp) ==
    IF resp.ok
    THEN Normal([s EXCEPT !.standings = StandingsOf(resp.version)], <<>>, <<Call("standings", TRUE)>>)
    ELSE Normal([s EXCEPT !.standings = UnsetStandings], <<>>, <<Call("standings", FALSE)>>)

\* Data.refresh_standings; resp is the outcome of Standings(self.today)
refresh_standings(s, resp) ==
    IF resp.ok
    THEN Normal([s EXCEPT !.standings = StandingsOf(resp.version)], <<>>, <<Call("standings", TRUE)>>)
    ELSE Normal(s, <<>>, <<Call("standings", FALSE)>>)

\* Data.fetch_preferred_team_game_data; resp answers the detail call.
\* A failed call reads self.game_data, an AttributeError before the first assignment.
fetch_preferred_team_game_data(s, resp) ==
    IF ~ is_offday_for_preferred_team(s)
    THEN LET game == s.games[game_index_for_preferred_team(s) + 1]
         IN  IF resp.ok
             THEN Normal([s EXCEPT !.network_issues = FALSE],
                         <<Detail(game.game_id, resp.shape)>>, <<Call("preferred", TRUE)>>)
             ELSE IF s.game_data = UnsetDetail
                  THEN Raise(s, "AttributeError", <<Call("preferred", FALSE)>>)
                  ELSE Normal([s EXCEPT !.network_issues = TRUE],
                              <<s.game_data>>, <<Call("preferred", FALSE)>>)
    ELSE Normal(s, <<NoneDetail>>, <<>>)

\* a slip in lines 196-199: the "not" before is_inning_break is missing
preempts_in_break(s, preferred_game_data) ==
    s.network_issues
    \/ (is_live(preferred_game_data.detailedState)
        /\ is_inning_break(preferred_game_data.inningState))

\* lines 196-199: the preferred team's game preempts the round robin
preempts(s, preferred_game_data) ==
    s.network_issues
    \/ (is_live(preferred_game_data.detailedState)
        /\ ~ is_inning_break(preferred_game_data.inningState))

\* a slip in line 194: the flag is not looked at
asks_preferred_ignoring_flag(s) == ~ is_offday_for_preferred_team(s)

\* line 194: advance_to_next_game asks for the preferred team's detail
asks_preferred(s) ==
    s.config.rotation_preferred_team_live_mid_inning /\ ~ is_offday_for_preferred_team(s)

\* Data.advance_to_next_game; resp answers the preferred team's detail call, if made
advance_to_next_game(s, resp) ==
    LET round_robin(t, up) ==
            current_game([t EXCEPT !.current_game_index = next_game_index(t)], up)
    IN  IF asks_preferred(s)
        THEN LET f == fetch_preferred_team_game_data(s, resp)
             IN  IF f.exc # "none"
                 THEN Raise(f.s, f.exc, f.up)
                 ELSE LET preferred_game_data == f.val[1]
                      IN  IF preempts(f.s, preferred_game_data)
                          THEN current_game(
                                   update_layout_state(
                                       [f.s EXCEPT !.current_game_index = game_index_for_preferred_team(f.s),
                                                   !.game_data = preferred_game_data,
                                                   !.needs_refresh = FALSE]),
                                   f.up)
                          ELSE round_robin(f.s, f.up)
        ELSE round_robin(s, <<>>)

\* a slip in line 123: the rotation moves on whether or not rotation is enabled
refresh_game_data_always_advances(s, resp, resp2) ==
    LET cur == current_game(s, <<>>)
        fetched == cur.exc = "none" /\ resp.ok
        up == IF cur.exc = "none" THEN <<Call("game", resp.ok)>> ELSE <<>>
    IN  IF fetched
        THEN Normal([update_layout_state(
                        [s EXCEPT !.game_data = Detail(cur.val[1].game_id, resp.shape)])
                     EXCEPT !.needs_refresh = FALSE, !.network_issues = FALSE],
                    <<>>, up)
        ELSE LET s1 == [s EXCEPT !.network_issues = TRUE]
                 a == advance_to_next_game(s1, resp2)
             IN  [s |-> a.s, exc |-> a.exc, val |-> <<>>, up |-> up \o a.up]

\* Data.refresh_game_data; resp answers the current game's detail call, resp2 the
\* preferred team's detail call of the delegated advance.  The bare except also
\* catches the IndexError of current_game(), before any upstream call is made.
refresh_game_data(s, resp, resp2) ==
    LET cur == current_game(s, <<>>)
        fetched == cur.exc = "none" /\ resp.ok
        up == IF cur.exc = "none" THEN <<Call("game", resp.ok)>> ELSE <<>>
    IN  IF fetched
        THEN Normal([update_layout_state(
                        [s EXCEPT !.game_data = Detail(cur.val[1].game_id, resp.shape)])
                     EXCEPT !.needs_refresh = FALSE, !.network_issues = FALSE],
                    <<>>, up)
        ELSE LET s1 == [s EXCEPT !.network_issues = TRUE]
             IN  IF s.config.rotation_enabled
                 THEN LET a == advance_to_next_game(s1, resp2)
                      IN  [s |-> a.s, exc |-> a.exc, val |-> <<>>, up |-> up \o a.up]
                 ELSE Normal(s1, <<>>, up)

\* Data.__standings_for: next() over the divisions of self.standings;
\* AttributeError before the first assignment, StopIteration without a match
standings_for(s, division_name) ==
    IF s.standings = UnsetStandings
    THEN Raise(s, "AttributeError", <<>>)
    ELSE LET found == SelectSeq(s.standings.divisions, LAMBDA d : d.name = division_name)
         IN  IF Len(found) > 0 THEN Normal(s, <<Head(found)>>, <<>>)
             ELSE Raise(s, "StopIteration", <<>>)

\* Data.current_standings
current_standings(s) ==
    standings_for(s, s.config.preferred_divisions[s.current_division_index + 1])

\* Data.advance_to_next_standings
advance_to_next_standings(s) ==
    current_standings([s EXCEPT !.current_division_index = next_division_index(s)])

----------------------------------------------------------------------------
(* The object as a state machine *)

\* answers of statsapi.schedule, drawn from a set of catalogs
ScheduleResponses(catalogs) ==
    { [ok |-> FALSE, games |-> <<>>] } \cup { [ok |-> TRUE, games |-> c] : c \in catalogs }

\* outcomes of Standings(self.today): a failure, or one of n tables
StandingsResponses(n) ==
    { [ok |-> FALSE, version |-> 0] } \cup { [ok |-> TRUE, version |-> v] : v \in 1..n }

\* the object and the returned value after a method ended as r
Becomes(r) ==
    /\ self' = r.s
    /\ ret' = r.val

\* the upstream calls of a method that ended as r
Calls(r) == { r.up[i] : i \in 1..Len(r.up) }

\* history of a method that ended as r: arg is what the method's own upstream call
\* answered with (the schedule's list of games), pref the answer of the preferred team's detail call (FailResp if none)
Logged(r, op, arg, pref) ==
    /\ last' = [op |-> op, up |-> r.up, exc |-> r.exc, arg |-> arg,
                pref |-> IF Call("preferred", TRUE) \in Calls(r) THEN pref ELSE FailResp]
    /\ last_call' = IF Len(r.up) > 0 THEN r.up[Len(r.up)].ok ELSE last_call

\* Data.__init__; the Weather and Headlines objects are outside the core
construct(c, sched, stand) ==
    LET s0 == [config |-> c, games |-> <<>>, current_game_index |-> 0,
               current_division_index |-> 0, network_issues |-> FALSE,
               needs_refresh |-> TRUE, game_data |-> UnsetDetail,
               standings |-> UnsetStandings, layout_state |-> LAYOUT_STATE_NORMAL]
        r1 == refresh_games(s0, sched)
        s2 == [r1.s EXCEPT !.current_game_index = game_index_for_preferred_team(r1.s)]
        r3 == refresh_standings(s2, stand)
    IN  Normal([r3.s EXCEPT !.network_issues = FALSE], <<>>, r1.up \o r3.up)

\* the state after constructing the object with configuration c
Constructed(c, sched, stand) ==
    LET r == construct(c, sched, stand)
    IN  /\ self = r.s
        /\ ret = <<>>
        /\ last = [op |-> "__init__", up |-> r.up, exc |-> r.exc, arg |-> sched.games,
                   pref |-> FailResp]
        /\ last_call = stand.ok
        /\ fetched_standings = IF stand.ok THEN StandingsOf(stand.version) ELSE UnsetStandings

\* an exception that reaches the driver ends the run
Running == last.exc = "none"

\* the answers an upstream detail call can give, when the call is made at all
Answers(made) == IF made THEN Responses ELSE {FailResp}

RefreshGames(answers) ==
    /\ Running
    /\ \E sched \in answers :
           LET r == refresh_games(self, sched)
           IN  Becomes(r) /\ Logged(r, "refresh_games", sched.games, FailResp)
    /\ UNCHANGED fetched_standings

RefreshStandings(answers) ==
    /\ Running
    /\ \E stand \in answers :
           LET r == refresh_standings(self, stand)
           IN  /\ Becomes(r) /\ Logged(r, "refresh_standings", <<>>, FailResp)
               /\ fetched_standings' = IF stand.ok THEN StandingsOf(stand.version)
                                       ELSE fetched_standings

\* the same, for detail calls that answer from the set answers
AnswersFrom(answers, made) == IF made THEN answers ELSE {FailResp}

\* a call of refresh_game_data; the history keeps the answer of its detail call in arg
RefreshGameDataWith(answers) ==
    /\ Running
    /\ \E resp \in AnswersFrom(answers, self.current_game_index < Len(self.games)) :
         \E resp2 \in AnswersFrom(answers, ~ resp.ok /\ self.config.rotation_enabled
                                              /\ asks_preferred(self)) :
           LET r == refresh_game_data(self, resp, resp2)
           IN  Becomes(r) /\ Logged(r, "refresh_game_data", <<resp>>, resp2)
    /\ UNCHANGED fetched_standings

RefreshGameData == RefreshGameDataWith(Responses)

AdvanceToNextGameWith(answers) ==
    /\ Running
    /\ \E resp \in AnswersFrom(answers, asks_preferred(self)) :
           LET r == advance_to_next_game(self, resp)
           IN  Becomes(r) /\ Logged(r, "advance_to_next_game", <<>>, resp)
    /\ UNCHANGED fetched_standings

AdvanceToNextGame == AdvanceToNextGameWith(Responses)

CurrentStandings ==
    /\ Running
    /\ LET r == current_standings(self)
       IN  Becomes(r) /\ Logged(r, "current_standings", <<>>, FailResp)
    /\ UNCHANGED fetched_standings

AdvanceToNextStandings ==
    /\ Running
    /\ LET r == advance_to_next_standings(self)
       IN  Becomes(r) /\ Logged(r, "advance_to_next_standings", <<>>, FailResp)
    /\ UNCHANGED fetched_standings

----------------------------------------------------------------------------
(* Spec: the game rotation.  The object is constructed with a successful    *)
(* standings fetch; the driver refreshes the catalog and the detail and     *)
(* advances the rotation.                                                   *)

\* what statsapi.schedule can answer
Schedules == ScheduleResponses(Catalogs(MaxGames))

Init ==
    \E c \in Configs, sched \in Schedules :
        Constructed(c, sched, [ok |-> TRUE, version |-> 1])

Next ==
    \/ RefreshGames(Schedules)
    \/ RefreshGameData
    \/ AdvanceToNextGame

Spec == Init /\ [][Next]_vars

----------------------------------------------------------------------------
(* SpecAll: every operation of the core, standings included, on days of at  *)
(* most MaxGamesAll games.                                                  *)

\* what statsapi.schedule and Standings() can answer
SchedulesAll == ScheduleResponses(Catalogs(MaxGamesAll))
StandingsAll == StandingsResponses(MaxStandings)

InitAll ==
    \E c \in Configs, sched \in SchedulesAll, stand \in StandingsAll :
        Constructed(c, sched, stand)

NextAll ==
    \/ RefreshGames(SchedulesAll)
    \/ RefreshStandings(StandingsAll)
    \/ RefreshGameData
    \/ AdvanceToNextGame
    \/ CurrentStandings
    \/ AdvanceToNextStandings

SpecAll == InitAll /\ [][NextAll]_vars

----------------------------------------------------------------------------
(* SpecLayout: the detail refresh and the rotation on days of at most       *)
(* MaxGamesAll games, with detail calls that answer every combination of    *)
(* warm-up, inning half, no-hitter and perfect game.                        *)

LayoutShapes ==
    [ detailedState : {"In Progress", WARMUP}, inningState : {"Top", "Middle"},
      noHitter : BOOLEAN, perfectGame : BOOLEAN ]

LayoutResponses == {FailResp} \cup { [ok |-> TRUE, shape |-> s] : s \in LayoutShapes }

InitLayout ==
    \E c \in Configs, sched \in SchedulesAll :
        Constructed(c, sched, [ok |-> TRUE, version |-> 1])

NextLayout ==
    \/ RefreshGameDataWith(LayoutResponses)
    \/ AdvanceToNextGameWith(LayoutResponses)

SpecLayout == InitLayout /\ [][NextLayout]_vars

----------------------------------------------------------------------------
(* SpecDate: the sports day.  An instant is a number of ticks since midnight *)
(* of day 0; a date string "%Y-%m-%d" is the number of its day.              *)

\* datetime.strptime(demo_date, "%Y-%m-%d"): midnight of that day
strptime_date(day) == day * TicksPerDay

\* datetime.strptime(end_of_day, "%H:%M").replace(year, month, day of today)
end_of_day_on(today, hhmm) == (today \div TicksPerDay) * TicksPerDay + hhmm

\* a slip in line 75: >= for >, the cutoff instant itself still counts as yesterday
parse_today_cutoff_inclusive(config, today_read, now_read) ==
    IF config.demo_date # <<>>
    THEN strptime_date(config.demo_date[1])
    ELSE IF end_of_day_on(today_read, config.end_of_day) >= now_read
         THEN today_read - TicksPerDay
         ELSE today_read

\* Data.__parse_today; today_read and now_read are what datetime.today() (line 71)
\* and datetime.now() (line 75) answer
parse_today(config, today_read, now_read) ==
    IF config.demo_date # <<>>
    THEN strptime_date(config.demo_date[1])
    ELSE IF end_of_day_on(today_read, config.end_of_day) > now_read
         THEN today_read - TicksPerDay
         ELSE today_read

\* Data.date: self.today.strftime("%Y-%m-%d")
date(s) == s.today \div TicksPerDay

\* config.demo_date (<<>> when not set) and config.end_of_day
DateConfigs ==
    [ demo_date : { <<>> } \cup { <<d>> : d \in 0..MaxDay },
      end_of_day : 0..(TicksPerDay - 1) ]

\* the instants datetime.today() can answer: any tick of the days 1..MaxDay
Clock == TicksPerDay..((MaxDay + 1) * TicksPerDay - 1)

\* line 31: the object holds its configuration, self.today is not assigned yet
InitDate ==
    \E c \in DateConfigs :
        /\ self = [config |-> c]
        /\ ret = <<>>
        /\ last = [op |-> "config", up |-> <<>>, exc |-> "none", arg |-> <<>>, pref |-> FailResp]
        /\ last_call = TRUE
        /\ fetched_standings = UnsetStandings

\* line 34: self.today = self.__parse_today(); the history keeps the two clock reads
ParseToday ==
    /\ Running
    /\ "today" \notin DOMAIN self
    /\ \E today_read \in Clock :
         \E now_read \in today_read..(today_read + MaxDrift) :
           /\ self' = [config |-> self.config,
                       today |-> parse_today(self.config, today_read, now_read)]
           /\ last' = [op |-> "__parse_today", up |-> <<>>, exc |-> "none",
                       arg |-> <<today_read, now_read>>, pref |-> FailResp]
    /\ ret' = <<>>
    /\ UNCHANGED <<last_call, fetched_standings>>

\* a call of Data.date
Date ==
    /\ Running
    /\ "today" \in DOMAIN self
    /\ ret' = <<date(self)>>
    /\ last' = [last EXCEPT !.op = "date"]
    /\ UNCHANGED <<self, last_call, fetched_standings>>

NextDate ==
    \/ ParseToday
    \/ Date

SpecDate == InitDate /\ [][NextDate]_vars

----------------------------------------------------------------------------
(* SpecRotate: the driver advances the rotation for ever over the catalog    *)
(* the constructor fetched, while the preferred team's detail call, when it  *)
(* is made, answers with a game that is not in play or is in an inning break.*)

QuietResponses ==
    { r \in Responses :
        r.ok /\ ~ (is_live(r.shape.detailedState) /\ ~ is_inning_break(r.shape.inningState)) }

InitRotate ==
    \E c \in Configs, sched \in Schedules :
        Constructed(c, sched, [ok |-> TRUE, version |-> 1])

NextRotate ==
    \/ AdvanceToNextGameWith(QuietResponses)

\* the render loop calls advance_to_next_game again and again
SpecRotate == InitRotate /\ [][NextRotate]_vars /\ WF_vars(NextRotate)

----------------------------------------------------------------------------
(* SpecPure: the queries of the object, applied to every catalog of at most *)
(* MaxGamesPure games, every cursor an earlier catalog can have left        *)
(* behind, and every list of preferred teams.                               *)

PureShapes ==
    { [away_name |-> "New York Yankees", home_name |-> "Boston Red Sox", status |-> "Scheduled"],
      [away_name |-> "Baltimore Orioles", home_name |-> "New York Yankees", status |-> "In Progress"],
      [away_name |-> "New York Mets", home_name |-> "Chicago Cubs", status |-> "In Progress"],
      [away_name |-> "Seattle Mariners", home_name |-> "Texas Rangers", status |-> "In Progress"],
      [away_name |-> "Seattle Mariners", home_name |-> "Texas Rangers", status |-> "Final"] }

PureConfigs ==
    [ preferred_teams : { <<>>, <<"Yankees">>, <<"Cubs", "Yankees">> },
      preferred_divisions : { PreferredDivisions },
      rotation_enabled : {FALSE},
      rotation_only_preferred : {FALSE},
      rotation_preferred_team_live_mid_inning : {FALSE} ]

InitPure ==
    \E c \in PureConfigs, g \in Days(PureShapes, MaxGamesPure), i \in 0..(MaxGamesPure - 1) :
        /\ self = [config |-> c, games |-> g, current_game_index |-> i,
                   current_division_index |-> 0, network_issues |-> FALSE,
                   needs_refresh |-> TRUE, game_data |-> UnsetDetail,
                   standings |-> StandingsOf(1), layout_state |-> LAYOUT_STATE_NORMAL]
        /\ ret = <<>>
        /\ last = [op |-> "refresh_games", up |-> <<Call("schedule", TRUE)>>, exc |-> "none",
                   arg |-> g, pref |-> FailResp]
        /\ last_call = TRUE
        /\ fetched_standings = StandingsOf(1)

\* a call of the public query Data.game_index_for_preferred_team
GameIndexForPreferredTeam ==
    /\ Running
    /\ LET r == Normal(self, <<game_index_for_preferred_team(self)>>, <<>>)
       IN  Becomes(r) /\ Logged(r, "game_index_for_preferred_team", <<>>, FailResp)
    /\ UNCHANGED fetched_standings

\* a call of Data.__filter_list_of_games on the catalog and the preferred teams,
\* as line 103 makes it; the history keeps the list passed in
FilterListOfGames ==
    /\ Running
    /\ LET r == Normal(self, <<filter_list_of_games(self.games, self.config.preferred_teams)>>, <<>>)
       IN  Becomes(r) /\ Logged(r, "__filter_list_of_games", self.games, FailResp)
    /\ UNCHANGED fetched_standings

\* a call of the public query Data.is_offday_for_preferred_team
IsOffdayForPreferredTeam ==
    /\ Running
    /\ LET r == Normal(self, <<is_offday_for_preferred_team(self)>>, <<>>)
       IN  Becomes(r) /\ Logged(r, "is_offday_for_preferred_team", <<>>, FailResp)
    /\ UNCHANGED fetched_standings

NextPure ==
    \/ GameIndexForPreferredTeam
    \/ FilterListOfGames
    \/ IsOffdayForPreferredTeam

SpecPure == InitPure /\ [][NextPure]_vars

----------------------------------------------------------------------------
(* Vocabulary of the properties *)

\* full names of the configured preferred teams, and of the primary one
PreferredNames ==
    { TEAM_FULL[self.config.preferred_teams[i]] : i \in 1..Len(self.config.preferred_teams) }

\* catalog positions (0-based) of the games the primary preferred team plays in
PrimaryPositions ==
    IF self.config.preferred_teams = <<>> THEN {}
    ELSE { k \in 0..(Len(self.games) - 1) :
             \/ self.games[k + 1].home_name = TEAM_FULL[self.config.preferred_teams[1]]
             \/ self.games[k + 1].away_name = TEAM_FULL[self.config.preferred_teams[1]] }

\* advance_to_next_game has to look at the preferred team's game
InterruptArmed ==
    self.config.rotation_preferred_team_live_mid_inning /\ PrimaryPositions # {}

\* the answer of the preferred team's detail call shows a game in play, mid-inning
LiveMidInning(resp) ==
    resp.ok /\ is_live(resp.shape.detailedState) /\ ~ is_inning_break(resp.shape.inningState)

Least(S) == CHOOSE x \in S : \A y \in S : x <= y

RECURSIVE KeepGamesOf(_, _)
\* the games of a list that one of the named teams plays in, in the list's order
KeepGamesOf(list, names) ==
    IF list = <<>> THEN <<>>
    ELSE (IF Head(list).home_name \in names \/ Head(list).away_name \in names
          THEN <<Head(list)>> ELSE <<>>) \o KeepGamesOf(Tail(list), names)

----------------------------------------------------------------------------
(* Properties *)

\* C1: whenever the catalog is non-empty, the cursor is a position of it:
\* 0 <= current_game_index < len(games), also right after refresh_games.
C1_CursorInRange ==
    Len(self.games) > 0 =>
        (0 <= self.current_game_index /\ self.current_game_index < Len(self.games))

\* C2: no operation raises to its caller, whatever upstream calls fail.
C2_NoOperationRaises == last.exc = "none"

\* C3: on an empty catalog advance_to_next_game returns normally and leaves the
\* cursor at 0, refresh_game_data returns normally, and the off-day and live
\* queries answer with booleans.
C3_EmptyCatalogHandled ==
    Len(self.games) = 0 =>
        /\ is_offday(self) \in BOOLEAN
        /\ is_offday_for_preferred_team(self) \in BOOLEAN
        /\ games_live(self) \in BOOLEAN
        /\ last.op = "advance_to_next_game" =>
               (last.exc = "none" /\ self.current_game_index = 0)
        /\ last.op = "refresh_game_data" => last.exc = "none"

\* the case of C4: an advance with the interrupt armed whose preferred detail
\* call answered with a game in play, mid-inning
C4_Case ==
    /\ last.op = "advance_to_next_game"
    /\ InterruptArmed
    /\ last.up = <<Call("preferred", TRUE)>>
    /\ LiveMidInning(last.pref)

\* C4: with the mid-inning interrupt armed and the preferred team's game fetched
\* live and not in an inning break, advance_to_next_game returns the preferred
\* team's game and leaves the cursor on it, wherever the cursor was.
C4_MidInningInterrupt ==
    C4_Case =>
        /\ last.exc = "none"
        /\ self.current_game_index \in PrimaryPositions
        /\ ret = <<self.games[self.current_game_index + 1]>>

C4_Witness == C4_Case /\ self.current_game_index = 2 /\ Len(self.games) = 3

\* the case of C5: refresh_game_data whose upstream detail call for the current
\* game failed, with rotation enabled
C5_Case ==
    /\ last'.op = "refresh_game_data"
    /\ Len(last'.up) > 0 /\ last'.up[1] = Call("game", FALSE)
    /\ self.config.rotation_enabled

C5_Advanced ==
    /\ (self').network_issues
    /\ (self').current_game_index = (self.current_game_index + 1) % Len(self.games)
    /\ last'.exc = "none"

\* C5 as claimed: a failed detail fetch with rotation enabled leaves
\* network_issues true and the cursor at (old + 1) mod len(games), and raises nothing.
C5_FailedDetailAdvances == [][C5_Case => C5_Advanced]_vars

\* C5 as amended: the same, when the delegated advance does not look at the
\* preferred team's game (flag disabled, or the primary team has no game).
C5_FailedDetailAdvancesPlain == [][(C5_Case /\ ~ InterruptArmed) => C5_Advanced]_vars

C5_Witness ==
    /\ last.op = "refresh_game_data"
    /\ last.up = <<Call("game", FALSE)>>
    /\ self.config.rotation_enabled /\ ~ InterruptArmed
    /\ Len(self.games) = 3 /\ self.current_game_index = 0
    /\ self.network_issues

\* C6: with no preferred-team interrupt applicable (flag disabled, no game of the
\* preferred team, or its game fetched and not live or in an inning break),
\* advance_to_next_game sets the cursor to (i + 1) mod N, and to 0 when N = 0.
C6_ModuloIncrement ==
    [][ ( /\ last'.op = "advance_to_next_game"
          /\ \/ ~ InterruptArmed
             \/ (last'.up = <<Call("preferred", TRUE)>> /\ ~ LiveMidInning(last'.pref)) )
        => (self').current_game_index =
               IF Len(self.games) = 0 THEN 0
               ELSE (self.current_game_index + 1) % Len(self.games) ]_vars

\* C7: refresh_games replaces the catalog wholesale: a failed schedule call sets
\* network_issues and empties the catalog; a successful one clears network_issues
\* and installs the provider's list, filtered to the preferred teams when
\* rotation_only_preferred is set.
C7_AllOrNothing ==
    last.op = "refresh_games" =>
        \/ /\ last.up = <<Call("schedule", FALSE)>>
           /\ self.network_issues
           /\ self.games = <<>>
        \/ /\ last.up = <<Call("schedule", TRUE)>>
           /\ ~ self.network_issues
           /\ self.games = IF self.config.rotation_only_preferred
                           THEN KeepGamesOf(last.arg, PreferredNames)
                           ELSE last.arg

C7_Witness ==
    /\ last.op = "refresh_games"
    /\ last.up = <<Call("schedule", TRUE)>>
    /\ self.config.rotation_only_preferred
    /\ Len(self.games) = 1 /\ Len(last.arg) = 3

\* C8: a failed refresh_standings leaves the Standings object as the last
\* successful fetch made it, and current_standings returns the rows of that
\* fetch for the current preferred division.
C8_StaleStandingsKept ==
    /\ self.standings = fetched_standings
    /\ (last.op = "current_standings" /\ fetched_standings # UnsetStandings) =>
           /\ last.exc = "none"
           /\ \E k \in 1..Len(fetched_standings.divisions) :
                  /\ ret = <<fetched_standings.divisions[k]>>
                  /\ ret[1].name =
                         self.config.preferred_divisions[self.current_division_index + 1]

C8_Witness ==
    /\ last.op = "refresh_standings"
    /\ last.up = <<Call("standings", FALSE)>>
    /\ self.standings = StandingsOf(2)

\* C9: network_issues is true iff the most recent upstream call failed, for
\* every kind of upstream call, the constructor's included.
C9_NetworkIssuesIsLastOutcome == self.network_issues = ~ last_call

\* the position C10 describes
C10_Expected ==
    LET live == { k \in PrimaryPositions : is_live(self.games[k + 1].status) }
    IN  IF self.config.preferred_teams = <<>> THEN self.current_game_index
        ELSE IF live # {} THEN Least(live)
        ELSE IF PrimaryPositions # {} THEN Least(PrimaryPositions)
        ELSE self.current_game_index

\* C10: game_index_for_preferred_team returns the cursor when no preferred team
\* is configured; otherwise the first live game of the primary team, else its
\* first game, else the cursor; and it changes neither catalog nor cursor.
C10_PreferredIndex ==
    [][ last'.op = "game_index_for_preferred_team" =>
            (ret' = <<C10_Expected>> /\ self' = self) ]_vars

C10_Witness ==
    /\ last.op = "game_index_for_preferred_team"
    /\ PrimaryPositions = {0, 2}
    /\ ret = <<2>>

\* C11: with the interrupt armed and the preferred team's detail call failing,
\* advance_to_next_game returns normally with the cursor on the preferred team's
\* game, needs_refresh false, network_issues true, and that game as its result.
C11_FailedFetchForcesPreferred ==
    ( /\ last.op = "advance_to_next_game"
      /\ InterruptArmed
      /\ last.up = <<Call("preferred", FALSE)>> )
    => /\ last.exc = "none"
       /\ self.current_game_index \in PrimaryPositions
       /\ ~ self.needs_refresh
       /\ self.network_issues
       /\ ret = <<self.games[self.current_game_index + 1]>>

\* C12: a refresh_game_data whose detail call fails while rotation is disabled
\* makes no other upstream call, raises nothing, and changes nothing of the
\* object but network_issues, which becomes true.
C12_FailedDetailStaysPut ==
    [][ ( /\ last'.op = "refresh_game_data"
          /\ Len(last'.up) > 0 /\ last'.up[1] = Call("game", FALSE)
          /\ ~ self.config.rotation_enabled )
        => /\ last'.up = <<Call("game", FALSE)>>
           /\ last'.exc = "none"
           /\ self' = [self EXCEPT !.network_issues = TRUE] ]_vars

C12_Witness ==
    /\ last.op = "refresh_game_data"
    /\ last.up = <<Call("game", FALSE)>>
    /\ ~ self.config.rotation_enabled
    /\ self.network_issues
    /\ self.game_data # UnsetDetail /\ ~ self.needs_refresh
    /\ Len(self.games) = 3 /\ self.current_game_index = 1

\* the layout state a detail record stands for: perfect game over no-hitter
\* over warm-up over normal
C13_LayoutOf(d) ==
    IF d.perfectGame THEN LAYOUT_STATE_PERFECT
    ELSE IF d.noHitter THEN LAYOUT_STATE_NOHIT
    ELSE IF d.detailedState = WARMUP THEN LAYOUT_STATE_WARMUP
    ELSE LAYOUT_STATE_NORMAL

\* C13: a refresh_game_data whose detail call succeeds caches the record answered
\* for the game at the cursor, clears network_issues and needs_refresh, sets the
\* one layout state of that record (perfect game over no-hitter over warm-up over
\* normal), and leaves the cursor, the catalog and everything else alone.
C13_SuccessfulRefresh ==
    [][ ( /\ last'.op = "refresh_game_data"
          /\ last'.up = <<Call("game", TRUE)>> )
        => LET d == Detail(self.games[self.current_game_index + 1].game_id, last'.arg[1].shape)
           IN  /\ last'.exc = "none"
               /\ self' = [self EXCEPT !.game_data = d,
                                       !.network_issues = FALSE,
                                       !.needs_refresh = FALSE,
                                       !.layout_state = C13_LayoutOf(d)] ]_vars

C13_Witness ==
    /\ last.op = "refresh_game_data"
    /\ last.up = <<Call("game", TRUE)>>
    /\ self.game_data.perfectGame /\ self.game_data.noHitter
    /\ self.game_data.detailedState = WARMUP
    /\ self.layout_state = LAYOUT_STATE_PERFECT
    /\ self.game_data.id = self.games[self.current_game_index + 1].game_id

\* C14: the division cursor stays inside preferred_divisions; advance_to_next_standings
\* sets it to (old + 1) mod D and no other operation changes it; current_standings
\* (also as the result of advance_to_next_standings) always returns the division
\* named preferred_divisions[current_division_index].
C14_DivisionCursor ==
    [][ LET D == Len(self.config.preferred_divisions)
        IN  /\ (self').current_division_index \in 0..(D - 1)
            /\ (self').current_division_index =
                   IF last'.op = "advance_to_next_standings"
                   THEN (self.current_division_index + 1) % D
                   ELSE self.current_division_index
            /\ last'.op \in {"current_standings", "advance_to_next_standings"} =>
                   /\ last'.exc = "none"
                   /\ ret'[1].name =
                          self.config.preferred_divisions[(self').current_division_index + 1] ]_vars

\* the sports day of the claim for clock time T and cutoff C: date(T) if
\* date(T) + C <= T, the day before otherwise
C15_Resolve(T, C) ==
    LET day == T \div TicksPerDay
    IN  IF day * TicksPerDay + C <= T THEN day ELSE day - 1

\* C15: with a demo date the sports day is that date, whatever the clock and the
\* cutoff; without one it is the day the claim gives for the clock time the
\* resolver read (for one of its two reads when the clock ticked in between), so
\* a clock exactly at the cutoff yields date(T).
C15_SportsDay ==
    last.op = "date" =>
        IF self.config.demo_date # <<>>
        THEN ret = <<self.config.demo_date[1]>>
        ELSE \E T \in {last.arg[1], last.arg[2]} :
                 ret = <<C15_Resolve(T, self.config.end_of_day)>>

C15_Witness ==
    /\ last.op = "date"
    /\ self.config.demo_date = <<>>
    /\ self.config.end_of_day > 0
    /\ last.arg[1] = last.arg[2]
    /\ last.arg[1] = (last.arg[1] \div TicksPerDay) * TicksPerDay + self.config.end_of_day
    /\ ret = <<last.arg[1] \div TicksPerDay>>

\* C16: the preferred-team filter returns the games of its input whose home or
\* away name is the full name of a preferred team, all of them and no others, in
\* the order of the input; filtering its result again returns the result.
C16_FilterIsOrderedSelection ==
    last.op = "__filter_list_of_games" =>
        LET input == last.arg
            output == ret[1]
            keep == { k \in 1..Len(input) :
                        \/ input[k].home_name \in PreferredNames
                        \/ input[k].away_name \in PreferredNames }
            rank(k) == Cardinality({ j \in keep : j <= k })
        IN  /\ Len(output) = Cardinality(keep)
            /\ \A k \in keep : output[rank(k)] = input[k]
            /\ filter_list_of_games(output, self.config.preferred_teams) = output

C16_Witness ==
    /\ last.op = "__filter_list_of_games"
    /\ Len(self.config.preferred_teams) = 2
    /\ Len(last.arg) = 3
    /\ ret = << <<last.arg[1], last.arg[3]>> >>
    /\ last.arg[1].home_name = "Chicago Cubs" /\ last.arg[3].away_name = "New York Yankees"

\* C17: is_offday_for_preferred_team answers true iff no preferred team is
\* configured or the primary preferred team plays in no game of the catalog;
\* so it answers true on every empty catalog, and is_offday implies it in every
\* reachable state.
C17_OffdayForPreferredTeam ==
    /\ is_offday(self) => is_offday_for_preferred_team(self)
    /\ last.op = "is_offday_for_preferred_team" =>
           /\ ret = <<(self.config.preferred_teams = <<>> \/ PrimaryPositions = {})>>
           /\ self.games = <<>> => ret = <<TRUE>>

C17_Witness ==
    /\ last.op = "is_offday_for_preferred_team"
    /\ self.config.preferred_teams = <<"Cubs", "Yankees">>
    /\ Len(self.games) = 3
    /\ \E k \in 1..3 : self.games[k].home_name = "New York Yankees"
    /\ ret = <<TRUE>>

\* C18: whenever advance_to_next_game returns through the preferred-team
\* interrupt (the preferred detail call failed, or it answered live and
\* mid-inning), the cached detail is the detail of the game the cursor is on:
\* game_data's game id is the selected game's id.
C18_CachedDetailIsSelectedGame ==
    ( /\ last.op = "advance_to_next_game"
      /\ last.exc = "none"
      /\ InterruptArmed
      /\ \/ last.up = <<Call("preferred", FALSE)>>
         \/ last.up = <<Call("preferred", TRUE)>> /\ LiveMidInning(last.pref) )
    => self.game_data.id = self.games[self.current_game_index + 1].game_id

\* C20: with the mid-inning flag disabled or no game of the preferred team in the
\* catalog, advance_to_next_game makes no upstream call and changes nothing of
\* the object but current_game_index.
C20_PlainAdvanceFrame ==
    [][ (last'.op = "advance_to_next_game" /\ ~ InterruptArmed)
        => /\ last'.up = <<>>
           /\ self' = [self EXCEPT !.current_game_index = (self').current_game_index] ]_vars

C20_Witness ==
    /\ last.op = "advance_to_next_game"
    /\ last.up = <<>>
    /\ ~ self.config.rotation_preferred_team_live_mid_inning
    /\ PrimaryPositions # {}
    /\ self.network_issues /\ self.game_data # UnsetDetail
    /\ Len(self.games) = 3 /\ self.current_game_index = 2

RECURSIVE C19_After(_, _, _)
\* the object after n consecutive calls of advance_to_next_game, the preferred
\* team's detail call answering resp each time it is made
C19_After(s, resp, n) ==
    IF n = 0 THEN s ELSE C19_After(advance_to_next_game(s, resp).s, resp, n - 1)

\* from the current state, N consecutive advances select every game of a
\* catalog of N > 0 games once and end on the cursor they started from
C19_Tour ==
    Len(self.games) > 0 =>
        \A resp \in AnswersFrom(QuietResponses, asks_preferred(self)) :
            LET N == Len(self.games)
                tour == [n \in 1..N |-> C19_After(self, resp, n).current_game_index]
            IN  /\ { tour[n] : n \in 1..N } = 0..(N - 1)
                /\ tour[N] = self.current_game_index

\* C19: round-robin fairness.  On a fixed non-empty catalog of N games with no
\* preferred-team interrupt applicable, from every valid cursor N consecutive
\* advances select each game exactly once and return the cursor to where it
\* started; and when the advances go on for ever, every game is selected
\* infinitely often.
C19_RoundRobin ==
    /\ [] C19_Tour
    /\ \A k \in 0..(MaxGames - 1) :
           []<>( k < Len(self.games) =>
                     /\ last.op = "advance_to_next_game"
                     /\ self.current_game_index = k
                     /\ ret = <<self.games[k + 1]>> )

C19_Witness ==
    /\ last.op = "advance_to_next_game"
    /\ last.exc = "none"
    /\ Len(self.games) = 3
    /\ self.current_game_index = 0
    /\ ret = <<self.games[1]>>
    /\ PrimaryPositions = {2}

====
